---- MODULE Spec2Model ----
(***************************************************************************)
(* Job pipeline and live-queue broadcast engine of Backend/main.py.        *)
(*                                                                         *)
(* The program is a single asyncio event loop.  A task runs without        *)
(* interruption until it reaches an await that suspends it; the variable   *)
(* running names the task that holds the loop (0: the loop is idle and any *)
(* task may be resumed).  The suspension points of the pipelines are       *)
(* `await connection.send_json(data)` inside QueueManager.broadcast and    *)
(* `await <upload>.read()`; everything between two of them is one          *)
(* uninterrupted run of steps of the same task.                            *)
(*                                                                         *)
(* Python objects keep their identity: queue_items is a reference to a     *)
(* list object in heap, every broadcast in flight holds a reference (data) *)
(* to the list it was called with, and every queue_item dict is shared by  *)
(* all lists that contain it (items).                                      *)
(***************************************************************************)
EXTENDS Integers, Sequences, FiniteSets, TLC

\* ------------------------------------------------------------------ bounds
NJobs == 2
NSubs == 2

Jobs == 1..NJobs
Subs == 1..NSubs
\* ids an entry can have: those of the requests and one that is no request's
Ids == 1..(NJobs + 1)
\* list objects alive at once: the current one and one per broadcast in flight
ListIds == 1..(NJobs + 1)

VARIABLES
    running,             \* task holding the event loop, 0 when it is idle
    models_loaded,       \* global models_loaded
    active_connections,  \* QueueManager.active_connections
    queue_items,         \* QueueManager.queue_items: reference to a list object
    heap,                \* list objects: reference -> sequence of job ids
    items,               \* the queue_item dict of each job: progress, status
    subSt,               \* each websocket: new, open, broken, closed, zombie
    lastMsg,             \* last message each websocket received
    got,                 \* messages the websocket has received: 0, 1, 2 (or more)
    pc,                  \* each request handler's position
    cont,                \* where the handler continues after broadcast returns
    kind,                \* media kind of the request
    bc,                  \* the broadcast call in flight of each handler
    nmut,                \* number of Hub mutations so far
    case,                \* the ORM object `case` of each handler (in memory)
    rec,                 \* the persisted row of table cases
    ncommit,             \* terminal commits persisted for the job
    audio_files,         \* audio: len(audio_files) of the request, 0 before it
    arrays,              \* audio: len(arrays)
    frames,              \* video: len(frames)
    fidx,                \* video: idx of the per-frame loop
    fake_confidences,    \* video: confidences of the frames labelled fake
    is_fake,             \* video: the verdict computed from them
    confidence           \* video: the confidence reported, as a fraction

hubVars == <<queue_items, heap, items>>
subVars == <<active_connections, subSt, lastMsg, got>>
jobVars == <<pc, cont, kind, bc, nmut, case, rec, ncommit, audio_files, arrays, frames, fidx>>
scoreVars == <<fake_confidences, is_fake, confidence>>
vars == <<running, models_loaded, hubVars, subVars, jobVars, scoreVars>>

\* ----------------------------------------------------------------- helpers
Range(s) == {s[i] : i \in 1..Len(s)}

IndexOf(s, x) == CHOOSE i \in 1..Len(s) : s[i] = x

\* json.dumps(data) inside send_json: the list as it is when send is called
Serialize(list, its) ==
    [k \in 1..Len(list) |->
        [id |-> list[k], progress |-> its[list[k]].progress,
         status |-> its[list[k]].status]]

NoMsg == [seq |-> 0, payload |-> <<>>]

IdleBc == [idx |-> 0, data |-> 0, seq |-> 0, snap |-> <<>>,
           start |-> {}, sent |-> {}, raised |-> {}]

NoCase == [status |-> "none", verdict |-> "none", explanation |-> "none",
           completed_at |-> FALSE]

\* Case(...) with the column defaults
NewCase == [status |-> "analyzing", verdict |-> "Processing...",
            explanation |-> "none", completed_at |-> FALSE]

NewItem == [progress |-> 0, status |-> "preprocessing"]

\* ------------------------------------------------------------ QueueManager
\* mutant: the entry is put at the front of the list
add_item_front(list, id) == <<id>> \o list

add_item(list, id) == Append(list, id)

\* mutant: the comparison of the list comprehension inverted
remove_item_inverted(list, id) == SelectSeq(list, LAMBDA i : i = id)

\* mutant: the entry is popped only when it is the oldest one
remove_item_head(list, id) ==
    IF list # <<>> /\ Head(list) = id THEN Tail(list) ELSE list

\* mutant: the entries that stay come out in the opposite order
remove_item_reversed(list, id) ==
    LET kept == SelectSeq(list, LAMBDA i : i # id)
    IN  [k \in 1..Len(kept) |-> kept[Len(kept) + 1 - k]]

remove_item(list, id) == SelectSeq(list, LAMBDA i : i # id)

\* mutant: the dict of the id is written whether or not it is in the list
update_item_always(list, its, id, progress, status) ==
    [its EXCEPT ![id] = [progress |-> progress, status |-> status]]

update_item(list, its, id, progress, status) ==
    IF id \in Range(list)
    THEN [its EXCEPT ![id] = [progress |-> progress, status |-> status]]
    ELSE its

\* references to list objects held by the broadcasts in flight, other than j's
HeldBy(others) == {bc[i].data : i \in others} \ {0}

\* a reference no live object uses (the list comprehension of remove_item
\* allocates a new list)
FreshList(j) ==
    CHOOSE l \in ListIds : l # queue_items /\ l \notin HeldBy(Jobs \ {j})

\* list objects nobody refers to any more are collected
Collect(h, q, held) == [l \in ListIds |-> IF l = q \/ l \in held THEN h[l] ELSE <<>>]

\* QueueManager.broadcast up to its first send: self.queue_items = data, then
\* the for loop starts.  data is the reference the caller passed, which in
\* every call of the pipelines is queue_manager.queue_items itself.
StartBroadcast(j, h, data, its, next) ==
    /\ queue_items' = data
    /\ heap' = Collect(h, data, HeldBy(Jobs \ {j}))
    /\ items' = its
    /\ nmut' = nmut + 1
    /\ bc' = [bc EXCEPT ![j] =
                [idx |-> 0, data |-> data, seq |-> nmut + 1,
                 snap |-> Serialize(h[data], its),
                 start |-> Range(active_connections),
                 sent |-> {}, raised |-> {}]]
    /\ pc' = [pc EXCEPT ![j] = "broadcast"]
    /\ cont' = [cont EXCEPT ![j] = next]
    /\ running' = j

\* one iteration of `for connection in self.active_connections`: the list
\* iterator reads active_connections[idx] of the list as it is now; send_json
\* serializes data and hands it to the channel, then the task is suspended.
\* A channel that is not open raises and `except: pass` swallows it.
BroadcastSend(j) ==
    /\ running \in {0, j}
    /\ pc[j] = "broadcast"
    /\ bc[j].idx < Len(active_connections)
    /\ subSt[active_connections[bc[j].idx + 1]] # "hung"
    /\ LET s == active_connections[bc[j].idx + 1]
           msg == [seq |-> bc[j].seq, payload |-> Serialize(heap[bc[j].data], items)]
       IN  IF subSt[s] = "open"
           THEN /\ lastMsg' = [lastMsg EXCEPT ![s] = msg]
                /\ got' = [got EXCEPT ![s] = IF @ < 2 THEN @ + 1 ELSE @]
                /\ bc' = [bc EXCEPT ![j].idx = @ + 1, ![j].sent = @ \cup {s}]
           ELSE /\ UNCHANGED <<lastMsg, got>>
                /\ bc' = [bc EXCEPT ![j].idx = @ + 1, ![j].raised = @ \cup {s}]
    /\ running' = 0
    /\ UNCHANGED <<models_loaded, scoreVars, hubVars, active_connections, subSt, pc, cont,
                   kind, nmut, case, rec, ncommit, audio_files, arrays, frames, fidx>>

\* the same iteration when the peer of the channel has stopped reading:
\* `await connection.send_json(data)` never completes, so the for loop, the
\* broadcast and the handler that awaits it are never resumed
BroadcastSendHangs(j) ==
    /\ running \in {0, j}
    /\ pc[j] = "broadcast"
    /\ bc[j].idx < Len(active_connections)
    /\ subSt[active_connections[bc[j].idx + 1]] = "hung"
    /\ pc' = [pc EXCEPT ![j] = "sending"]
    /\ running' = 0
    /\ UNCHANGED <<models_loaded, scoreVars, hubVars, subVars, cont, kind, bc, nmut, case,
                   rec, ncommit, audio_files, arrays, frames, fidx>>

\* the iterator is exhausted: broadcast returns to its caller
BroadcastReturn(j) ==
    /\ running \in {0, j}
    /\ pc[j] = "broadcast"
    /\ bc[j].idx >= Len(active_connections)
    /\ pc' = [pc EXCEPT ![j] = cont[j]]
    /\ cont' = [cont EXCEPT ![j] = "none"]
    /\ bc' = [bc EXCEPT ![j] = IdleBc]
    /\ heap' = Collect(heap, queue_items, HeldBy(Jobs \ {j}))
    /\ running' = j
    /\ UNCHANGED <<models_loaded, scoreVars, queue_items, items, subVars, kind, nmut, case,
                   rec, ncommit, audio_files, arrays, frames, fidx>>

\* --------------------------------------------------------- websocket_queue
\* mutant: only the newest entry is sent, not the whole list
connect_payload_newest(list, its) ==
    Serialize(IF list = <<>> THEN <<>> ELSE <<list[Len(list)]>>, its)

\* the message connect sends: the current queue state
connect_payload(list, its) == Serialize(list, its)

\* connect: accept, append, send the current queue state
Connect(s) ==
    /\ running = 0
    /\ subSt[s] = "new"
    /\ \A t \in Subs : t < s => subSt[t] # "new"
    /\ active_connections' = Append(active_connections, s)
    /\ subSt' = [subSt EXCEPT ![s] = "open"]
    /\ lastMsg' = [lastMsg EXCEPT ![s] =
           [seq |-> nmut, payload |-> connect_payload(heap[queue_items], items)]]
    /\ got' = [got EXCEPT ![s] = 1]
    /\ UNCHANGED <<running, models_loaded, scoreVars, hubVars, jobVars>>

\* connect when send_json raises: the exception leaves websocket_queue
\* (connect is called outside its try), so nothing removes the websocket
\* from active_connections
ConnectRaises(s) ==
    /\ running = 0
    /\ subSt[s] = "new"
    /\ \A t \in Subs : t < s => subSt[t] # "new"
    /\ active_connections' = Append(active_connections, s)
    /\ subSt' = [subSt EXCEPT ![s] = "zombie"]
    /\ UNCHANGED <<running, models_loaded, scoreVars, hubVars, lastMsg, got, jobVars>>

\* the peer goes away: from now on send_json raises and receive_text will
\* raise WebSocketDisconnect when the handler is resumed
ChannelBreak(s) ==
    /\ running = 0
    /\ subSt[s] = "open"
    /\ subSt' = [subSt EXCEPT ![s] = "broken"]
    /\ UNCHANGED <<running, models_loaded, scoreVars, hubVars, active_connections, lastMsg,
                   got, jobVars>>

\* the peer stays connected but stops reading: the write buffer fills and
\* a send on this channel waits for ever
ChannelHangs(s) ==
    /\ running = 0
    /\ subSt[s] = "open"
    /\ subSt' = [subSt EXCEPT ![s] = "hung"]
    /\ UNCHANGED <<running, models_loaded, scoreVars, hubVars, active_connections, lastMsg,
                   got, jobVars>>

\* list.remove(websocket) when it is in the list
disconnect(conns, s) ==
    IF s \in Range(conns)
    THEN [k \in 1..(Len(conns) - 1) |->
            IF k < IndexOf(conns, s) THEN conns[k] ELSE conns[k + 1]]
    ELSE conns

\* except WebSocketDisconnect: queue_manager.disconnect(websocket)
Disconnect(s) ==
    /\ running = 0
    /\ subSt[s] = "broken"
    /\ subSt' = [subSt EXCEPT ![s] = "closed"]
    /\ active_connections' = disconnect(active_connections, s)
    /\ UNCHANGED <<running, models_loaded, scoreVars, hubVars, lastMsg, got, jobVars>>

\* load_models, started by lifespan as a background task
LoadModels ==
    /\ running = 0
    /\ ~models_loaded
    /\ models_loaded' = TRUE
    /\ UNCHANGED <<running, hubVars, subVars, jobVars, scoreVars>>

\* ------------------------------------------------------- request handlers
\* mutant: the handler passes the list it saw before its mutation
broadcast_arg_before(current, before) == before

\* the argument of every broadcast call of the handlers:
\* queue_manager.queue_items, read when the call is made
broadcast_arg(current, before) == current

Goto(j, p) == pc' = [pc EXCEPT ![j] = p]

\* Case(...); db.add; db.commit; queue_manager.add_item(queue_item);
\* await queue_manager.broadcast(queue_manager.queue_items)
Register(j, k, next) ==
    /\ kind' = [kind EXCEPT ![j] = k]
    /\ case' = [case EXCEPT ![j] = NewCase]
    /\ rec' = [rec EXCEPT ![j] = NewCase]
    /\ LET its == [items EXCEPT ![j] = NewItem]
           h == [heap EXCEPT ![queue_items] = add_item(@, j)]
       IN  StartBroadcast(j, h, broadcast_arg(queue_items, queue_items), its, next)

\* update_item(case.id, progress, status); await broadcast(queue_items)
Progress(j, progress, status, next) ==
    StartBroadcast(j, heap, broadcast_arg(queue_items, queue_items),
                   update_item(heap[queue_items], items, j, progress, status), next)

\* remove_item(case.id); await broadcast(queue_items)
Unregister(j, next) ==
    LET l == FreshList(j)
        h == [heap EXCEPT ![l] = remove_item(heap[queue_items], j)]
    IN  StartBroadcast(j, h, broadcast_arg(l, queue_items), items, next)

\* raise HTTPException(400, ...) before the Case is created
Reject(j, k) ==
    /\ kind' = [kind EXCEPT ![j] = k]
    /\ Goto(j, "rejected")
    /\ UNCHANGED <<running, hubVars, cont, bc, nmut, case, rec>>

\* a request arrives; requests are numbered in the order they arrive
Arrives(j) ==
    /\ running = 0
    /\ pc[j] = "new"
    /\ \A i \in Jobs : i < j => pc[i] # "new"

Resumed(j, p) ==
    /\ running \in {0, j}
    /\ pc[j] = p

\* ---------------------------------------------- detect_image_manipulation
SubmitImage(j) ==
    /\ Arrives(j)
    /\ \E valid \in BOOLEAN :
          IF valid THEN Register(j, "image", "read") ELSE Reject(j, "image")
    /\ UNCHANGED <<models_loaded, scoreVars, subVars, ncommit, audio_files, arrays, frames, fidx>>

\* contents = await image.read()
ImageRead(j) ==
    /\ Resumed(j, "read")
    /\ Goto(j, "decode")
    /\ running' = 0
    /\ UNCHANGED <<models_loaded, scoreVars, hubVars, subVars, cont, kind, bc, nmut, case,
                   rec, ncommit, audio_files, arrays, frames, fidx>>

\* Image.open(...).convert("RGB"), then update_item(30, "analyzing")
ImageDecode(j) ==
    /\ Resumed(j, "decode")
    /\ Progress(j, 30, "analyzing", "infer")
    /\ UNCHANGED <<models_loaded, scoreVars, subVars, kind, case, rec, ncommit, audio_files, arrays,
                   frames, fidx>>

\* the classifier or its mock, then update_item(70, "llm_explaining")
ImageInfer(j) ==
    /\ Resumed(j, "infer")
    /\ Progress(j, 70, "llm_explaining", "explain")
    /\ UNCHANGED <<models_loaded, scoreVars, subVars, kind, case, rec, ncommit, audio_files, arrays,
                   frames, fidx>>

\* generate_explanation, then update_item(90, "sending_result")
ImageExplain(j) ==
    /\ Resumed(j, "explain")
    /\ Progress(j, 90, "sending_result", "commit")
    /\ UNCHANGED <<models_loaded, scoreVars, subVars, kind, case, rec, ncommit, audio_files, arrays,
                   frames, fidx>>

\* ---------------------------------------------- detect_audio_manipulation
\* files one audio request carries at most (at least one: the parameter is
\* required)
MaxFiles == 3

\* mutant: a request with more than two files is let through
accepts_count_at_least(n) == n >= 2

\* `if len(audio_files) != 2: raise HTTPException(400, ...)`
accepts_count(n) == n = 2

\* len(audio_files) != 2 is rejected; the formats are checked later
SubmitAudio(j) ==
    /\ Arrives(j)
    /\ \E n \in 1..MaxFiles :
          /\ audio_files' = [audio_files EXCEPT ![j] = n]
          /\ IF accepts_count(n) THEN Register(j, "audio", "aformat")
                                 ELSE Reject(j, "audio")
    /\ UNCHANGED <<models_loaded, scoreVars, subVars, ncommit, arrays, frames, fidx>>

\* for audio in audio_files: the format check, inside the try; a supported
\* file reaches `content = await audio.read()`, an unsupported one raises
\* HTTPException(400), which `except Exception` catches
AudioFormat(j) ==
    /\ Resumed(j, "aformat")
    /\ \E valid \in BOOLEAN :
          IF valid THEN Goto(j, "aload") /\ running' = 0
                   ELSE Goto(j, "except") /\ running' = j
    /\ UNCHANGED <<models_loaded, scoreVars, hubVars, subVars, cont, kind, bc, nmut, case,
                   rec, ncommit, audio_files, arrays, frames, fidx>>

\* update_item(20 + len(arrays) * 15, "preprocessing")
AudioLoad(j) ==
    /\ Resumed(j, "aload")
    /\ Progress(j, 20 + arrays[j] * 15, "preprocessing", "alibrosa")
    /\ UNCHANGED <<models_loaded, scoreVars, subVars, kind, case, rec, ncommit, audio_files, arrays,
                   frames, fidx>>

\* librosa.load; arrays.append(waveform); the next file, or after the last
\* one update_item(50, "analyzing")
AudioAppend(j) ==
    /\ Resumed(j, "alibrosa")
    /\ arrays' = [arrays EXCEPT ![j] = @ + 1]
    /\ IF arrays[j] + 1 < audio_files[j]
       THEN /\ Goto(j, "aformat")
            /\ running' = j
            /\ UNCHANGED <<hubVars, cont, bc, nmut>>
       ELSE Progress(j, 50, "analyzing", "ainfer")
    /\ UNCHANGED <<models_loaded, scoreVars, subVars, kind, case, rec, ncommit, audio_files,
                   frames, fidx>>

\* the speaker model or its mock, then update_item(80, "llm_explaining")
AudioInfer(j) ==
    /\ Resumed(j, "ainfer")
    /\ Progress(j, 80, "llm_explaining", "commit")
    /\ UNCHANGED <<models_loaded, scoreVars, subVars, kind, case, rec, ncommit, audio_files, arrays,
                   frames, fidx>>

\* ---------------------------------------------- detect_video_manipulation
SubmitVideo(j) ==
    /\ Arrives(j)
    /\ \E valid \in BOOLEAN :
          IF valid THEN Register(j, "video", "vcopy") ELSE Reject(j, "video")
    /\ UNCHANGED <<models_loaded, scoreVars, subVars, ncommit, audio_files, arrays, frames, fidx>>

\* shutil.copyfileobj, then update_item(15, "preprocessing")
VideoCopy(j) ==
    /\ Resumed(j, "vcopy")
    /\ Progress(j, 15, "preprocessing", "vsample")
    /\ UNCHANGED <<models_loaded, scoreVars, subVars, kind, case, rec, ncommit, audio_files, arrays,
                   frames, fidx>>

\* np.linspace(0, max(total-1, 0), 8): 8 positions are read
SampleCount == 8

\* frame rates cv2 reports: 0 when the container gives none
Rates == {0, 1}

\* mutant: the duration is computed without looking at fps
divides_always(fps) == TRUE

\* `duration = total / fps if fps > 0 else 0`: whether total / fps is
\* evaluated
divides(fps) == fps > 0

\* the asset is probed: a division by a zero fps is a ZeroDivisionError,
\* caught by `except Exception`; otherwise the frames are sampled, n of them
\* decode, then update_item(30, "analyzing")
VideoSample(j, n) ==
    /\ Resumed(j, "vsample")
    /\ n <= SampleCount
    /\ \E fps \in Rates :
          IF divides(fps) /\ fps = 0
          THEN /\ Goto(j, "except")
               /\ running' = j
               /\ UNCHANGED <<hubVars, cont, bc, nmut, frames>>
          ELSE /\ frames' = [frames EXCEPT ![j] = n]
               /\ Progress(j, 30, "analyzing", "vframes")
    /\ UNCHANGED <<models_loaded, scoreVars, subVars, kind, case, rec, ncommit, audio_files,
                   arrays, fidx>>

\* mutant: the per-frame progress counts down from 70
frame_progress_down(idx, n) == 70 - ((idx * 40) \div n)

\* mutant: idx is not divided by len(frames)
frame_progress_unscaled(idx, n) == 30 + (idx * 40)

\* progress = 30 + int((idx / len(frames)) * 40)
frame_progress(idx, n) == 30 + ((idx * 40) \div n)

\* one turn of `for idx, frame in enumerate(frames)` with the real model:
\* the frame is classified, then update_item(progress, "analyzing")
VideoFrame(j) ==
    /\ Resumed(j, "vframes")
    /\ models_loaded
    /\ fidx[j] < frames[j]
    /\ fidx' = [fidx EXCEPT ![j] = @ + 1]
    /\ Progress(j, frame_progress(fidx[j], frames[j]), "analyzing", "vframes")
    /\ UNCHANGED <<models_loaded, scoreVars, subVars, kind, case, rec, ncommit, audio_files, arrays, frames>>

\* the loop is over (the mock loop does not touch the queue); the verdict is
\* computed, then update_item(80, "llm_explaining")
VideoVerdict(j) ==
    /\ Resumed(j, "vframes")
    /\ ~models_loaded \/ fidx[j] = frames[j]
    /\ Progress(j, 80, "llm_explaining", "commit")
    /\ UNCHANGED <<models_loaded, scoreVars, subVars, kind, case, rec, ncommit, audio_files, arrays,
                   frames, fidx>>

\* ------------------------------------------------------ the video verdict
\* frames labelled fake of one video, at most (8 in the code)
MaxFlagged == 3

\* confidences of a frame labelled fake, in percent
FakeConf == {50, 60, 70, 90}

\* the integers np.random.uniform(70, 90) is modelled to draw
Uniform7090 == 70..89

RECURSIVE Sum(_)
Sum(seq) == IF seq = <<>> THEN 0 ELSE Head(seq) + Sum(Tail(seq))

\* a number num / den; den = 0: not computed yet
NotScored == [num |-> 0, den |-> 0]

\* avg_fake_conf = np.mean(fake_confidences) if fake_confidences else 0
avg_fake_conf(fcs) ==
    IF fcs # <<>> THEN [num |-> Sum(fcs), den |-> Len(fcs)]
                  ELSE [num |-> 0, den |-> 1]

\* is_fake = avg_fake_conf > 60
flags_fake(avg) == avg.num > 60 * avg.den

\* confidence = avg_fake_conf if is_fake else (100 - avg_fake_conf if
\* avg_fake_conf > 0 else np.random.uniform(70, 90)): the values it can take
reported_confidence(avg) ==
    IF flags_fake(avg) THEN {avg}
    ELSE IF avg.num > 0 THEN {[num |-> 100 * avg.den - avg.num, den |-> avg.den]}
    ELSE {[num |-> r, den |-> 1] : r \in Uniform7090}

\* lines 832-834 applied to the confidences the per-frame loop collected
VideoScore ==
    /\ confidence = NotScored
    /\ is_fake' = flags_fake(avg_fake_conf(fake_confidences))
    /\ confidence' \in reported_confidence(avg_fake_conf(fake_confidences))
    /\ UNCHANGED <<running, models_loaded, hubVars, subVars, jobVars,
                   fake_confidences>>

\* ------------------------------------------------ the end of each handler
\* the statements of the try blocks that can raise: decoding the upload,
\* and the real models (the mock branches draw random numbers only)
CanRaise(j) ==
    \/ pc[j] \in {"decode", "alibrosa", "vcopy"}
    \/ models_loaded /\ pc[j] \in {"infer", "ainfer"}
    \/ models_loaded /\ pc[j] = "vframes" /\ fidx[j] < frames[j]

\* a statement of the try block raises: control goes to `except Exception`
Raise(j) ==
    /\ running \in {0, j}
    /\ CanRaise(j)
    /\ Goto(j, "except")
    /\ running' = j
    /\ UNCHANGED <<models_loaded, scoreVars, hubVars, subVars, cont, kind, bc, nmut, case,
                   rec, ncommit, audio_files, arrays, frames, fidx>>

\* the task of the handler is cancelled while it is suspended in
\* `await image.read()` or `await audio.read()`: CancelledError is raised
\* there; it is not an Exception, so `except Exception` does not catch it
\* and the handler ends without running its except block
Cancel(j) ==
    /\ running = 0
    /\ pc[j] \in {"decode", "aload"}
    /\ Goto(j, "cancelled")
    /\ UNCHANGED <<running, models_loaded, scoreVars, hubVars, subVars, cont, kind, bc,
                   nmut, case, rec, ncommit, audio_files, arrays, frames, fidx>>

\* the task is cancelled while it is suspended in a send_json of broadcast:
\* CancelledError is raised inside the try of the for loop, the bare
\* `except: pass` swallows it and the loop goes on with the next websocket
CancelBroadcast(j) ==
    /\ running = 0
    /\ pc[j] = "broadcast"
    /\ bc[j].idx > 0
    /\ running' = j
    /\ UNCHANGED <<models_loaded, scoreVars, hubVars, subVars, jobVars>>

\* the fields the success path writes to `case`
Completed == [status |-> "completed", verdict |-> "verdict",
              explanation |-> "explanation", completed_at |-> TRUE]

\* the fields the except handler writes: status and verdict for every kind,
\* explanation = str(e) for image only; completed_at is left as it is
Failed(c, k) ==
    [c EXCEPT !.status = "failed", !.verdict = "Analysis Failed",
              !.explanation = IF k = "image" THEN "reason" ELSE @]

\* case.status = CaseStatus.completed ...; db.commit();
\* remove_item(case.id); await broadcast(queue_items)
CommitSuccess(j) ==
    /\ Resumed(j, "commit")
    /\ case' = [case EXCEPT ![j] = Completed]
    /\ rec' = [rec EXCEPT ![j] = Completed]
    /\ ncommit' = [ncommit EXCEPT ![j] = @ + 1]
    /\ Unregister(j, "return")
    /\ UNCHANGED <<models_loaded, scoreVars, subVars, kind, audio_files, arrays, frames, fidx>>

\* the same, when db.commit() raises: nothing is persisted and control
\* goes to `except Exception`
CommitSuccessRaises(j) ==
    /\ Resumed(j, "commit")
    /\ case' = [case EXCEPT ![j] = Completed]
    /\ Goto(j, "except")
    /\ running' = j
    /\ UNCHANGED <<models_loaded, scoreVars, hubVars, subVars, cont, kind, bc, nmut, rec,
                   ncommit, audio_files, arrays, frames, fidx>>

\* except Exception as e: case.status = CaseStatus.failed ...; db.commit();
\* remove_item(case.id); await broadcast(queue_items)
CommitFailure(j) ==
    /\ Resumed(j, "except")
    /\ case' = [case EXCEPT ![j] = Failed(@, kind[j])]
    /\ rec' = [rec EXCEPT ![j] = Failed(case[j], kind[j])]
    /\ ncommit' = [ncommit EXCEPT ![j] = @ + 1]
    /\ Unregister(j, "raise")
    /\ UNCHANGED <<models_loaded, scoreVars, subVars, kind, audio_files, arrays, frames, fidx>>

\* the same, when the db.commit() of the except handler raises: the
\* exception leaves the handler, remove_item is never reached
CommitFailureRaises(j) ==
    /\ Resumed(j, "except")
    /\ case' = [case EXCEPT ![j] = Failed(@, kind[j])]
    /\ Goto(j, "crashed")
    /\ running' = 0
    /\ UNCHANGED <<models_loaded, scoreVars, hubVars, subVars, cont, kind, bc, nmut, rec,
                   ncommit, audio_files, arrays, frames, fidx>>

\* return {...} on the success path, raise HTTPException(500, ...) on the
\* failure path: the handler ends
Return(j) ==
    /\ running \in {0, j}
    /\ pc[j] \in {"return", "raise"}
    /\ Goto(j, "done")
    /\ running' = 0
    /\ UNCHANGED <<models_loaded, scoreVars, hubVars, subVars, cont, kind, bc, nmut, case,
                   rec, ncommit, audio_files, arrays, frames, fidx>>

\* ------------------------------------------------------------------- spec
\* decoded frames of a video explored by the concurrent specifications
MaxDecoded == 2

\* the state after construction, but for the inputs of the video verdict
InitState ==
    /\ running = 0
    /\ models_loaded = FALSE
    /\ active_connections = <<>>
    /\ queue_items = 1
    /\ heap = [l \in ListIds |-> <<>>]
    /\ items = [j \in Ids |-> NewItem]
    /\ subSt = [s \in Subs |-> "new"]
    /\ lastMsg = [s \in Subs |-> NoMsg]
    /\ got = [s \in Subs |-> 0]
    /\ pc = [j \in Jobs |-> "new"]
    /\ cont = [j \in Jobs |-> "none"]
    /\ kind = [j \in Jobs |-> "none"]
    /\ bc = [j \in Jobs |-> IdleBc]
    /\ nmut = 0
    /\ case = [j \in Jobs |-> NoCase]
    /\ rec = [j \in Jobs |-> NoCase]
    /\ ncommit = [j \in Jobs |-> 0]
    /\ audio_files = [j \in Jobs |-> 0]
    /\ arrays = [j \in Jobs |-> 0]
    /\ frames = [j \in Jobs |-> 0]
    /\ fidx = [j \in Jobs |-> 0]
    /\ is_fake = FALSE
    /\ confidence = NotScored

Init == InitState /\ fake_confidences = <<>>

ImageStep(j) ==
    \/ SubmitImage(j) \/ ImageRead(j) \/ ImageDecode(j)
    \/ ImageInfer(j) \/ ImageExplain(j)

AudioStep(j) ==
    \/ SubmitAudio(j) \/ AudioFormat(j) \/ AudioLoad(j)
    \/ AudioAppend(j) \/ AudioInfer(j)

VideoStep(j) ==
    \/ SubmitVideo(j) \/ VideoCopy(j)
    \/ \E n \in 0..MaxDecoded : VideoSample(j, n)
    \/ VideoFrame(j) \/ VideoVerdict(j)

\* The pipelines of all media kinds, with every failure of a stage and of
\* the record store, watched by observers whose channels work.
Next ==
    \/ LoadModels
    \/ \E s \in Subs : Connect(s)
    \/ \E j \in Jobs :
          \/ ImageStep(j) \/ AudioStep(j) \/ VideoStep(j)
          \/ Raise(j)
          \/ CommitSuccess(j) \/ CommitSuccessRaises(j)
          \/ CommitFailure(j) \/ CommitFailureRaises(j)
          \/ Return(j)
          \/ BroadcastSend(j) \/ BroadcastReturn(j)

Spec == Init /\ [][Next]_vars

\* The Hub and its observers: image pipelines that do not fail, observers
\* that attach, break and detach at any time.
NextHub ==
    \/ \E s \in Subs :
          Connect(s) \/ ConnectRaises(s) \/ ChannelBreak(s) \/ Disconnect(s)
    \/ \E j \in Jobs :
          \/ ImageStep(j)
          \/ CommitSuccess(j)
          \/ Return(j)
          \/ BroadcastSend(j) \/ BroadcastReturn(j)

SpecHub == Init /\ [][NextHub]_vars

\* what one image handler can do, observers' channels possibly hung
HangStep(j) ==
    \/ ImageStep(j)
    \/ CommitSuccess(j)
    \/ Return(j)
    \/ BroadcastSend(j) \/ BroadcastSendHangs(j) \/ BroadcastReturn(j)

\* The Hub with slow observers: image pipelines that do not fail, observers
\* that attach and whose peer may stop reading at any time.
NextHang ==
    \/ \E s \in Subs : Connect(s) \/ ChannelHangs(s)
    \/ \E j \in Jobs : HangStep(j)

SpecHang == Init /\ [][NextHang]_vars

\* The pipelines of image and audio jobs whose task may be cancelled at any
\* await, with failing stages and a record store that works.
NextCancel ==
    \/ \E s \in Subs : Connect(s)
    \/ \E j \in Jobs :
          \/ ImageStep(j) \/ AudioStep(j)
          \/ Raise(j)
          \/ Cancel(j) \/ CancelBroadcast(j)
          \/ CommitSuccess(j) \/ CommitFailure(j)
          \/ Return(j)
          \/ BroadcastSend(j) \/ BroadcastReturn(j)

SpecCancel == Init /\ [][NextCancel]_vars

\* The pipelines of all media kinds when no stage and no commit fails, a
\* video decoding any number of its sampled frames, watched by observers
\* whose channels work.
ProgressStep(j) ==
    \/ ImageStep(j) \/ AudioStep(j)
    \/ SubmitVideo(j) \/ VideoCopy(j)
    \/ \E n \in 0..SampleCount : VideoSample(j, n)
    \/ VideoFrame(j) \/ VideoVerdict(j)
    \/ CommitSuccess(j) \/ CommitFailure(j)
    \/ Return(j)
    \/ BroadcastSend(j) \/ BroadcastReturn(j)

NextProgress ==
    \/ LoadModels
    \/ \E s \in Subs : Connect(s)
    \/ \E j \in Jobs : ProgressStep(j)

SpecProgress == Init /\ [][NextProgress]_vars

\* --------------------------------------------- the QueueManager by itself
\* entries the list holds at most when its methods are called directly
MaxQueue == 3

\* the progress values and labels a direct caller passes to update_item
CallProgress == {30, 70}
CallStatus == {"analyzing", "llm_explaining"}

\* queue_manager.add_item(item) with the dict of id j, whether or not an
\* entry of that id is in the list (the same dict when it is added again)
CallAdd(j) ==
    /\ running = 0
    /\ Len(heap[queue_items]) < MaxQueue
    /\ heap' = [heap EXCEPT ![queue_items] = add_item(@, j)]
    /\ UNCHANGED <<running, models_loaded, scoreVars, queue_items, items, subVars, jobVars>>

\* queue_manager.update_item(j, progress, status), for an id in the list
\* or not
CallUpdate(j, progress, status) ==
    /\ running = 0
    /\ items' = update_item(heap[queue_items], items, j, progress, status)
    /\ UNCHANGED <<running, models_loaded, scoreVars, queue_items, heap, subVars, jobVars>>

\* queue_manager.remove_item(j), for an id in the list or not: the list
\* comprehension builds a new list and queue_items is bound to it
CallRemove(j) ==
    /\ running = 0
    /\ LET l == FreshList(j)
           h == [heap EXCEPT ![l] = remove_item(heap[queue_items], j)]
       IN  /\ queue_items' = l
           /\ heap' = Collect(h, l, {})
    /\ UNCHANGED <<running, models_loaded, scoreVars, items, subVars, jobVars>>

\* The methods of QueueManager called in any order with any id, no request
\* in progress.
NextQueue ==
    \E j \in Ids :
       \/ CallAdd(j)
       \/ \E p \in CallProgress, st \in CallStatus : CallUpdate(j, p, st)
       \/ CallRemove(j)

SpecQueue == Init /\ [][NextQueue]_vars

\* ------------------------------------------- the video verdict by itself
\* every list of confidences the per-frame loop can have collected
InitVerdict ==
    /\ InitState
    /\ fake_confidences \in UNION {[1..n -> FakeConf] : n \in 0..MaxFlagged}

NextVerdict == VideoScore

SpecVerdict == InitVerdict /\ [][NextVerdict]_vars

\* ================================================================ claims
InHub(j) == j \in Range(heap[queue_items])

Snapshot == Serialize(heap[queue_items], items)

Terminal(j) == rec[j].status \in {"completed", "failed"}

\* the broadcast of handler j returns in this step
Returns(j) == pc[j] = "broadcast" /\ pc'[j] # "broadcast"

\* the observers of the broadcast of handler j that were attached when it
\* began, are still attached when it returns and whose channel never failed
Audience(j) ==
    {s \in bc[j].start : s \in Range(active_connections) /\ subSt[s] = "open"}

\* C1: whenever the event loop is idle (another task can run), the Hub
\* holds an entry for job j if and only if the persisted record of j has
\* status analyzing.
C1_EntryIffAnalyzing ==
    running = 0 => \A j \in Jobs : InHub(j) <=> rec[j].status = "analyzing"

\* C1 witness: the loop is idle, one job has failed and left the Hub while
\* another one is analyzing and has its entry.
C1_Witness ==
    /\ running = 0
    /\ \E i, j \in Jobs :
          /\ rec[i].status = "failed" /\ ~InHub(i)
          /\ rec[j].status = "analyzing" /\ InHub(j)

\* C2 (as claimed): every handler that has ended, whichever way, has
\* persisted exactly one terminal commit for its job.
C2_ExactlyOneTerminalCommit ==
    \A j \in Jobs : pc[j] \in {"done", "crashed"} => ncommit[j] = 1

\* C3: once every launched job has run to the end of its pipeline, the Hub
\* is empty and every job has exactly one terminal record.
C3_AllDoneLeavesHubEmpty ==
    (\A j \in Jobs : pc[j] = "done") =>
        /\ heap[queue_items] = <<>>
        /\ \A j \in Jobs : Terminal(j) /\ ncommit[j] = 1

\* C3 witness: all jobs are done, of different media kinds, one completed
\* and one failed.
C3_Witness ==
    /\ \A j \in Jobs : pc[j] = "done"
    /\ \E i, j \in Jobs :
          /\ kind[i] # kind[j]
          /\ rec[i].status = "completed" /\ rec[j].status = "failed"

\* C4 (as claimed): when a broadcast returns, every observer that was
\* attached when it began, is still attached and whose channel never failed
\* has been sent its snapshot.
C4_NoSnapshotSkipped ==
    [][\A j \in Jobs : Returns(j) => Audience(j) \subseteq bc[j].sent]_vars

\* C5 (as claimed): no observer receives, after the snapshot a broadcast
\* delivered for one mutation, the snapshot of an earlier mutation (a list
\* that is no longer the Hub's).  got[s] = 2 says that the message before
\* was delivered by a broadcast, not by connect.
C5_SnapshotsInOrder ==
    [][\A s \in Subs :
          lastMsg'[s] # lastMsg[s] /\ got[s] = 2 =>
             ~(/\ lastMsg'[s].seq < lastMsg[s].seq
               /\ lastMsg'[s].payload # Serialize(heap'[queue_items'], items'))]_vars

\* C6 (as claimed): no broadcast is in flight while another handler's
\* broadcast is suspended between two of its deliveries (one made, one
\* still to make).
C6_BroadcastsExclusive ==
    \A i, j \in Jobs :
       (/\ pc[i] = "broadcast" /\ pc[j] = "broadcast"
        /\ 0 < bc[i].idx /\ bc[i].idx < Len(active_connections)) => i = j

\* C7 (as claimed): every message a broadcast delivers is the snapshot of
\* the Hub as it was right after the mutation that triggered the broadcast.
C7_OneSnapshotPerBroadcast ==
    [][\A j \in Jobs : \A s \in Subs :
          s \in bc'[j].sent \ bc[j].sent => lastMsg'[s].payload = bc[j].snap]_vars

\* C8: the first message an observer receives is the complete current
\* snapshot of the Hub.
C8_FirstMessageIsSnapshot ==
    [][\A s \in Subs :
          got[s] = 0 /\ got'[s] = 1 =>
             lastMsg'[s].payload = Serialize(heap'[queue_items'], items')]_vars

\* C8 witness: an observer has received its first message only, and it lists
\* two jobs.
C8_Witness ==
    \E s \in Subs : got[s] = 1 /\ Len(lastMsg[s].payload) = 2

\* C9 (as claimed): when a delivery of a broadcast raised, every other
\* observer attached throughout the broadcast has still been sent its
\* snapshot when the broadcast returns.
C9_FailureIsolated ==
    [][\A j \in Jobs :
          Returns(j) /\ bc[j].raised # {} => Audience(j) \subseteq bc[j].sent]_vars

\* C10 (as claimed): an observer whose channel raised on delivery is no
\* longer in active_connections once the failing broadcast has returned, or
\* once connect has failed.
C10_FailedObserverRemoved ==
    [][/\ \A j \in Jobs :
             Returns(j) => bc[j].raised \cap Range(active_connections') = {}
       /\ \A s \in Subs :
             subSt'[s] = "zombie" => s \notin Range(active_connections')]_vars

\* the handler of job j has ended: it returned or raised, an exception
\* left its except block, or its task was cancelled
Ended(j) == pc[j] \in {"rejected", "done", "crashed", "cancelled"}

\* the pipeline of handler j has begun and has not ended
Pending(j) == pc[j] # "new" /\ ~Ended(j)

\* C11 (as claimed): an observer whose delivery never completes blocks
\* nobody.  Whenever the event loop is idle, every handler whose pipeline
\* has not ended can take its next step; and a broadcast that waits on such
\* an observer (a wait that never ends) has sent its snapshot to every other
\* observer that was attached when it began and whose channel works.
C11_HungDoesNotBlock ==
    /\ running = 0 => \A j \in Jobs : Pending(j) => ENABLED HangStep(j)
    /\ \A j \in Jobs :
          pc[j] = "sending" =>
             {s \in bc[j].start : subSt[s] = "open"} \subseteq bc[j].sent

\* the Case of job j was created (and, in the same step, its entry added)
Registered(j) == rec[j].status # "none"

\* this step is remove_item(case.id) followed by broadcast, in handler j
Unregisters(j) ==
    pc[j] # "broadcast" /\ pc'[j] = "broadcast" /\ cont'[j] \in {"return", "raise"}

\* C12 (as claimed): on every exit path of a registered job, cancellation
\* included, its entry is unregistered and a broadcast follows, exactly
\* once: remove_item + broadcast runs only while the entry is there, and
\* when the handler has ended the entry is gone.
C12_UnregisterOnEveryExit ==
    [][\A j \in Jobs :
          /\ Unregisters(j) => InHub(j) /\ ~InHub(j)'
          /\ Registered(j)' /\ Ended(j)' => ~InHub(j)']_vars

\* C13 (as claimed): whatever step raises, no job is left half-cleaned:
\* once the handler of a job whose record was created has ended, the
\* persisted record is terminal and the Hub has no entry for the job.
C13_NoHalfCleaned ==
    \A j \in Jobs : Registered(j) /\ Ended(j) => Terminal(j) /\ ~InHub(j)

\* handler j leaves its except block in this step, entered because a stage
\* raised before the success path wrote `case` (image and video: an audio
\* handler gets there from its format check as well)
HandlesStageFailure(j) ==
    /\ kind[j] \in {"image", "video"}
    /\ pc[j] = "except" /\ case[j].status = "analyzing" /\ pc'[j] # "except"

\* C14 (as claimed): when a stage of a registered job raises, the record is
\* committed as failed, the entry is removed from the Hub, a snapshot
\* without it is broadcast and the handler goes on to raise its server
\* error; the record is not completed.
C14_StageFailureHandled ==
    [][\A j \in Jobs :
          HandlesStageFailure(j) =>
             /\ rec'[j].status = "failed"
             /\ ~InHub(j)'
             /\ pc'[j] = "broadcast" /\ cont'[j] = "raise"
             /\ \A k \in 1..Len(bc'[j].snap) : bc'[j].snap[k].id # j]_vars

\* the submission of handler j fails input validation in this step: the
\* checks at the top of the handlers, or the format check of an audio file
FailsValidation(j) ==
    \/ pc[j] = "new" /\ pc'[j] = "rejected"
    \/ pc[j] = "aformat" /\ pc'[j] = "except"

\* C15 (as claimed): a submission that fails input validation is rejected
\* with the client error before any record is created and without touching
\* the Hub: no record exists for it, the Hub is as it was and no broadcast
\* is started.
C15_InvalidRejectedUntouched ==
    [][\A j \in Jobs :
          FailsValidation(j) =>
             /\ pc'[j] = "rejected"
             /\ ~Registered(j)'
             /\ hubVars' = hubVars /\ nmut' = nmut
             /\ ~InHub(j)']_vars

\* handler j receives an audio request in this step
SubmitsAudio(j) == audio_files[j] = 0 /\ audio_files'[j] # 0

\* C16: an audio request with a number of files other than two is rejected
\* with the client error in the step that receives it: no record is
\* created, the Hub is as it was, no broadcast is started and no observer
\* receives anything; and it stays so.
C16_WrongCountRejected ==
    [][\A j \in Jobs :
          /\ SubmitsAudio(j) /\ audio_files'[j] # 2 =>
                /\ pc'[j] = "rejected"
                /\ hubVars' = hubVars /\ nmut' = nmut /\ bc' = bc
                /\ lastMsg' = lastMsg
          /\ audio_files'[j] \notin {0, 2} =>
                pc'[j] = "rejected" /\ ~Registered(j)' /\ ~InHub(j)']_vars

\* C16 witness: a request of three files was rejected while another job
\* had its entry in the Hub and an observer was attached.
C16_Witness ==
    \E i, j \in Jobs :
       /\ audio_files[j] = 3 /\ pc[j] = "rejected"
       /\ InHub(i) /\ active_connections # <<>>

\* the progress of job j in a message, -1 when the message does not list j
ProgressIn(payload, j) ==
    IF \E k \in 1..Len(payload) : payload[k].id = j
    THEN payload[CHOOSE k \in 1..Len(payload) : payload[k].id = j].progress
    ELSE -1

\* C17: from registration to removal the progress written to the entry of
\* a job never decreases, and the progress of a job in the successive
\* messages an observer receives never decreases either; for video with
\* every number of decoded frames from 0 to 8.
C17_ProgressMonotone ==
    [][\A j \in Jobs :
          /\ items'[j].progress >= items[j].progress
          /\ \A s \in Subs :
                ProgressIn(lastMsg[s].payload, j) >= 0
                /\ ProgressIn(lastMsg'[s].payload, j) >= 0 =>
                   ProgressIn(lastMsg'[s].payload, j)
                      >= ProgressIn(lastMsg[s].payload, j)]_vars

\* C17 witness: a video of which all 8 sampled frames decoded has had its
\* last per-frame progress, 65, written and delivered to an observer.
C17_Witness ==
    \E j \in Jobs : \E s \in Subs :
       /\ kind[j] = "video" /\ frames[j] = SampleCount /\ fidx[j] = SampleCount
       /\ items[j].progress = 65
       /\ ProgressIn(lastMsg[s].payload, j) = 65

\* C18 (as claimed): a job that does not fail has progress 100 reported:
\* when its entry is removed on the success path, the progress written to
\* the entry is 100.
C18_ProgressReaches100 ==
    [][\A j \in Jobs :
          Unregisters(j) /\ cont'[j] = "return" => items[j].progress = 100]_vars

\* C19 (as claimed): the persisted record of a job changes only from
\* analyzing to completed or to failed, and that step is the one that
\* writes its completion fields (the completion timestamp and the verdict),
\* which were not written before.
C19_TerminalWrittenOnce ==
    [][\A j \in Jobs :
          Registered(j) /\ rec'[j] # rec[j] =>
             /\ rec[j].status = "analyzing"
             /\ rec'[j].status \in {"completed", "failed"}
             /\ ~rec[j].completed_at /\ rec'[j].completed_at
             /\ rec[j].verdict = "Processing..."
             /\ rec'[j].verdict # "Processing..."]_vars

\* C20 (as claimed): a persisted record with status failed has the verdict
\* "Analysis Failed", the failure reason as its explanation and a
\* completion timestamp.
C20_FailedRecordComplete ==
    \A j \in Jobs :
       rec[j].status = "failed" =>
          /\ rec[j].verdict = "Analysis Failed"
          /\ rec[j].explanation = "reason"
          /\ rec[j].completed_at

\* this step is add_item(j): the list object of the Hub grows by j
Adds(j) ==
    queue_items' = queue_items
    /\ heap'[queue_items] = Append(heap[queue_items], j)

\* C21 (as claimed): registering an id that is already in the Hub leaves
\* the entries as they are, so the Hub never holds two entries of one id.
C21_NoDuplicateEntry ==
    [][\A j \in Ids :
          /\ Adds(j) => ~InHub(j)
          /\ \A k1, k2 \in 1..Len(heap'[queue_items']) :
                heap'[queue_items'][k1] = heap'[queue_items'][k2] => k1 = k2]_vars

\* C22: update_item for an id that has no entry in the Hub is a no-op: the
\* progress and the label of an entry are written only while its id is in
\* the list, and a step that writes them neither adds nor removes an entry
\* nor touches the entries of other ids.
C22_UpdateAbsentIsNoOp ==
    [][\A j \in Ids :
          items'[j] # items[j] =>
             /\ InHub(j)
             /\ heap' = heap /\ queue_items' = queue_items
             /\ \A i \in Ids \ {j} : items'[i] = items[i]]_vars

\* C22 witness: id 1 has no entry and its dict was never written, while
\* the entry of id 2 has been updated to 70: update_item(1, ...) finds
\* nothing here.
C22_Witness ==
    /\ ~InHub(1) /\ items[1] = NewItem
    /\ InHub(2) /\ items[2].progress = 70

RECURSIVE Without(_, _)
\* the list with every entry of id x taken out, the others where they were
Without(list, x) ==
    IF list = <<>> THEN <<>>
    ELSE IF Head(list) = x THEN Without(Tail(list), x)
    ELSE <<Head(list)>> \o Without(Tail(list), x)

\* C23: remove_item(id) takes the entries of that id out of the list and
\* leaves the others, in their order; on a list without the id it changes
\* nothing, and applied twice it gives what it gives applied once.
C23_RemoveIdempotent ==
    [][/\ queue_items' # queue_items =>
             \E j \in Ids : heap'[queue_items'] = Without(heap[queue_items], j)
       /\ \A j \in Ids :
             LET list == heap'[queue_items']
                 once == remove_item(list, j)
             IN  /\ once = Without(list, j)
                 /\ j \notin Range(once)
                 /\ remove_item(once, j) = once
                 /\ j \notin Range(list) => once = list]_vars

\* C23 witness: remove_item has bound queue_items to a new list, in which
\* two entries of different ids stand in the order they were added.
C23_Witness ==
    queue_items # 1 /\ heap[queue_items] = <<3, 1>>

MeanFake == IF fake_confidences = <<>> THEN [num |-> 0, den |-> 1]
            ELSE [num |-> Sum(fake_confidences), den |-> Len(fake_confidences)]

\* C25 (as claimed): the verdict of a video is fake exactly when the mean
\* confidence of the frames labelled fake exceeds 60, and then the reported
\* confidence is that mean; otherwise the reported confidence is 100 minus
\* the mean, also when no frame is labelled fake (mean 0).
C25_VideoVerdict ==
    confidence # NotScored =>
       /\ is_fake <=> MeanFake.num > 60 * MeanFake.den
       /\ is_fake =>
             confidence.num * MeanFake.den = MeanFake.num * confidence.den
       /\ ~is_fake =>
             confidence.num * MeanFake.den
                = (100 * MeanFake.den - MeanFake.num) * confidence.den

\* the stage labels of the spec
StageLabels == {"preprocessing", "analyzing", "llm_explaining", "sending_result"}

\* C26: every entry in the Hub has a progress in 0..100 and one of the
\* four stage labels; a video entry with the label analyzing (the value
\* written before the per-frame loop and the per-frame values) has a
\* progress in 30..70.
C26_EntryRanges ==
    \A j \in Jobs :
       InHub(j) =>
          /\ items[j].progress \in 0..100
          /\ items[j].status \in StageLabels
          /\ kind[j] = "video" /\ items[j].status = "analyzing" =>
                items[j].progress \in 30..70

\* C26 witness: the Hub holds a video entry at the last per-frame value of
\* eight frames and an image entry at its last stage.
C26_Witness ==
    \E i, j \in Jobs :
       /\ InHub(i) /\ kind[i] = "image" /\ items[i].status = "sending_result"
       /\ InHub(j) /\ kind[j] = "video" /\ frames[j] = SampleCount
       /\ items[j] = [progress |-> 65, status |-> "analyzing"]

\* the place of job j in a message, 0 when the message does not list it
PlaceIn(payload, j) ==
    IF \E k \in 1..Len(payload) : payload[k].id = j
    THEN CHOOSE k \in 1..Len(payload) : payload[k].id = j
    ELSE 0

\* both jobs are listed in the message
Lists(payload, i, j) == PlaceIn(payload, i) > 0 /\ PlaceIn(payload, j) > 0

C28_SnapshotsConverge ==
    (\A j \in Jobs : pc[j] # "broadcast") =>
       \A s \in Subs :
          s \in Range(active_connections) /\ subSt[s] = "open" =>
             lastMsg[s].payload = Snapshot

\* handler j calls broadcast in this step, after add_item
Registers(j) ==
    pc[j] = "new" /\ pc'[j] = "broadcast"

\* C29: broadcast never changes the membership of the Hub.  The step that
\* calls it leaves in the Hub exactly what the caller's mutation made of
\* the list (the entry appended, the list as it was, or the entry taken
\* out), and no later step of a broadcast in flight changes the list of
\* the Hub or the object queue_items refers to.
C29_BroadcastKeepsMembership ==
    [][\A j \in Jobs :
          /\ Registers(j) =>
                heap'[queue_items'] = Append(heap[queue_items], j)
          /\ Unregisters(j) =>
                heap'[queue_items'] = Without(heap[queue_items], j)
          /\ pc[j] # "broadcast" /\ pc'[j] = "broadcast"
             /\ ~Registers(j) /\ ~Unregisters(j) =>
                heap'[queue_items'] = heap[queue_items]
          /\ pc[j] = "broadcast" /\ bc'[j] # bc[j] =>
                queue_items' = queue_items
                /\ heap'[queue_items'] = heap[queue_items]]_vars

\* C29 witness: a broadcast that holds an older list than the Hub's, one
\* that still has an entry the Hub has lost, is resumed after a send.
C29_Witness ==
    \E i \in Jobs :
       /\ pc[i] = "broadcast" /\ bc[i].idx > 0 /\ bc[i].sent # {}
       /\ bc[i].data # queue_items
       /\ Len(heap[bc[i].data]) > Len(heap[queue_items])

====
